---- MODULE Spec2Model ----
(***************************************************************************)
(* Model of dynamodbexample/dynamodb.go: an account store client on top of *)
(* a DynamoDB table.  The backend is modelled by its table listing and the *)
(* rows of the Accounts table; every client function is an operator from   *)
(* the backend state and the function's arguments to the state, the        *)
(* returned value and the error it ends with.  Two specifications use      *)
(* them: Spec, a caller invoking the account operations in any order, and  *)
(* SpecMain, the fixed script of Main.                                     *)
(***************************************************************************)
EXTENDS Integers, Sequences, FiniteSets, TLC

VARIABLES
    tables,     \* backend: the table names, in the order ListTables reports them
    items,      \* backend: the rows of the Accounts table
    scanOrder,  \* backend: the order in which Scan walks the partition keys
    isLocal,    \* Main: isLocalDatabase
    pc,         \* the statement of Main (or "ready" for the caller of Spec) to run next
    call,       \* the most recent client call: <<function, argument>>
    ret,        \* the value that call returned
    err,        \* the error handed to panicOnError by that call
    prev,       \* the rows of the Accounts table when that call started
    script,     \* Main: the calls made so far, in order
    before      \* Main: the rows of the Accounts table when the run started

vars ==
    <<tables, items, scanOrder, isLocal, pc, call, ret, err, prev, script, before>>

----------------------------------------------------------------------------
(* Bounds of the model *)

\* rows with other names that the table may hold besides the ones operated on
NumBulk == 99
\* tables other than Accounts the backend may hold
NumOtherTables == 10

(* Constants of the program *)
ListTablesLimit == 10
QueryLimit == 1
ScanLimit == 100

TableName == "Accounts"

nil == "nil"

Min(a, b) == IF a < b THEN a ELSE b

Range(s) == {s[i] : i \in 1..Len(s)}

----------------------------------------------------------------------------
(* Values *)

Names == {"Foo", "Fum"}
Keys == {"123456", ""}
Descriptions == {"My first account", "My seccond account", ""}

BulkName == <<
    "acct001", "acct002", "acct003", "acct004", "acct005", "acct006",
    "acct007", "acct008", "acct009", "acct010", "acct011", "acct012",
    "acct013", "acct014", "acct015", "acct016", "acct017", "acct018",
    "acct019", "acct020", "acct021", "acct022", "acct023", "acct024",
    "acct025", "acct026", "acct027", "acct028", "acct029", "acct030",
    "acct031", "acct032", "acct033", "acct034", "acct035", "acct036",
    "acct037", "acct038", "acct039", "acct040", "acct041", "acct042",
    "acct043", "acct044", "acct045", "acct046", "acct047", "acct048",
    "acct049", "acct050", "acct051", "acct052", "acct053", "acct054",
    "acct055", "acct056", "acct057", "acct058", "acct059", "acct060",
    "acct061", "acct062", "acct063", "acct064", "acct065", "acct066",
    "acct067", "acct068", "acct069", "acct070", "acct071", "acct072",
    "acct073", "acct074", "acct075", "acct076", "acct077", "acct078",
    "acct079", "acct080", "acct081", "acct082", "acct083", "acct084",
    "acct085", "acct086", "acct087", "acct088", "acct089", "acct090",
    "acct091", "acct092", "acct093", "acct094", "acct095", "acct096",
    "acct097", "acct098", "acct099", "acct100", "acct101", "acct102",
    "acct103", "acct104" >>

BulkNames == {BulkName[i] : i \in 1..NumBulk}

OtherTableName == <<
    "Aaa01", "Aaa02", "Aaa03", "Aaa04", "Aaa05", "Aaa06", "Aaa07", "Aaa08",
    "Aaa09", "Aaa10", "Aaa11", "Aaa12", "Aaa13" >>

Account(n, k, d) == [Name |-> n, Key |-> k, Description |-> d]

Accounts == {Account(n, k, d) : n \in Names, k \in Keys, d \in Descriptions}

Foo == Account("Foo", "123456", "My first account")
\* the second account of Main under the name of the first
FumNamedFoo == Account("Foo", "654321", "My seccond account")
Fum == Account("Fum", "654321", "My seccond account")

BulkAccount(n) == Account(n, "secret", "")

\* errors a backend call can end with, besides those the request itself causes
Faults == {nil, "RequestError"}

----------------------------------------------------------------------------
(* dynamodbattribute: the attribute-value encoding of an Account *)

AttrS(s) == [T |-> "S", V |-> s]
AttrNULL == [T |-> "NULL", V |-> "true"]
AttrN(s) == [T |-> "N", V |-> s]
AttrM(m) == [T |-> "M", V |-> m]

\* a Go string encodes as S, the empty string as NULL
MarshalString(s) == IF s = "" THEN AttrNULL ELSE AttrS(s)

\* NULL decodes to the zero value of the field
UnmarshalString(av) == IF av.T = "S" THEN av.V ELSE ""

\* Marshal with the description field filled from Key
MarshalDescriptionFromKey(acc) ==
    [av  |-> AttrM([name        |-> MarshalString(acc.Name),
                    key         |-> MarshalString(acc.Key),
                    description |-> MarshalString(acc.Key)]),
     err |-> nil]

\* dynamodbattribute.Marshal(*srv): a map keyed by the json tags of Account
Marshal(acc) ==
    [av  |-> AttrM([name        |-> MarshalString(acc.Name),
                    key         |-> MarshalString(acc.Key),
                    description |-> MarshalString(acc.Description)]),
     err |-> nil]

\* dynamodbattribute.Unmarshal(av, acc) into acc := &Account{}
Unmarshal(av) ==
    IF av.T = "M"
    THEN [acc |-> Account(UnmarshalString(av.V.name),
                          UnmarshalString(av.V.key),
                          UnmarshalString(av.V.description)),
          err |-> nil]
    ELSE [acc |-> Account("", "", ""), err |-> "UnmarshalTypeError"]

\* the row insertAccount writes for an account
Item(name, data) ==
    [AccountName |-> AttrS(name), Data |-> AttrM([object |-> data])]

RowOf(acc) == Item(acc.Name, Marshal(acc).av)

\* a row written by another program: its payload is not an encoded Account
ForeignRow == Item("legacy", AttrN("42"))

----------------------------------------------------------------------------
(* The backend: the requests the client sends through svc *)

TableExists(tbls) == TableName \in Range(tbls)

\* the rows in the order a Query or Scan meets them
RowsInOrder(rows, order) ==
    LET keys == {r.AccountName.V : r \in rows}
        met  == SelectSeq(order, LAMBDA n : n \in keys)
    IN  [i \in 1..Len(met) |-> CHOOSE r \in rows : r.AccountName.V = met[i]]

ListTables(tbls, limit, fault) ==
    IF fault # nil
    THEN [TableNames |-> <<>>, err |-> fault]
    ELSE [TableNames |-> SubSeq(tbls, 1, Min(Len(tbls), limit)), err |-> nil]

CreateTable(tbls, name, fault) ==
    IF fault # nil THEN [tables |-> tbls, err |-> fault]
    ELSE IF name \in Range(tbls)
    THEN [tables |-> tbls, err |-> "ResourceInUseException"]
    ELSE [tables |-> Append(tbls, name), err |-> nil]

PutItem(tbls, rows, item, fault) ==
    IF fault # nil THEN [items |-> rows, err |-> fault]
    ELSE IF ~TableExists(tbls)
    THEN [items |-> rows, err |-> "ResourceNotFoundException"]
    ELSE [items |-> {r \in rows : r.AccountName # item.AccountName} \cup {item},
          err   |-> nil]

Query(tbls, rows, order, keyValue, limit, fault) ==
    IF fault # nil THEN [Items |-> <<>>, Count |-> 0, err |-> fault]
    ELSE IF ~TableExists(tbls)
    THEN [Items |-> <<>>, Count |-> 0, err |-> "ResourceNotFoundException"]
    ELSE LET match == RowsInOrder({r \in rows : r.AccountName = keyValue}, order)
             page  == SubSeq(match, 1, Min(Len(match), limit))
         IN  [Items |-> page, Count |-> Len(page), err |-> nil]

Scan(tbls, rows, order, limit, fault) ==
    IF fault # nil THEN [Items |-> <<>>, Count |-> 0, err |-> fault]
    ELSE IF ~TableExists(tbls)
    THEN [Items |-> <<>>, Count |-> 0, err |-> "ResourceNotFoundException"]
    ELSE LET all  == RowsInOrder(rows, order)
             page == SubSeq(all, 1, Min(Len(all), limit))
         IN  [Items |-> page, Count |-> Len(page), err |-> nil]

DeleteItem(tbls, rows, key, fault) ==
    IF fault # nil THEN [items |-> rows, err |-> fault]
    ELSE IF ~TableExists(tbls)
    THEN [items |-> rows, err |-> "ResourceNotFoundException"]
    ELSE [items |-> {r \in rows : r.AccountName # key}, err |-> nil]

----------------------------------------------------------------------------
(* The client functions.  Each yields the backend state it leaves, the     *)
(* value it returns (a pointer is the sequence of what it points to, nil   *)
(* the empty sequence), the error it met and whether it panicked.          *)

Outcome(tbls, rows, r, e, p) ==
    [tables |-> tbls, items |-> rows, ret |-> r, err |-> e, panicked |-> p]

\* panicOnError that logs the error and returns
panicOnErrorLogOnly(e) == FALSE

\* panicOnError(e): whether it panics
panicOnError(e) == e # nil

contains(list, value) == \E i \in 1..Len(list) : list[i] = value

openDatabase(tbls, rows, fault) ==
    Outcome(tbls, rows, <<>>, fault, panicOnError(fault))

listTables(tbls, rows, fault) ==
    LET resp == ListTables(tbls, ListTablesLimit, fault)
    IN  IF panicOnError(resp.err)
        THEN Outcome(tbls, rows, <<>>, resp.err, TRUE)
        ELSE Outcome(tbls, rows, resp.TableNames, resp.err, FALSE)

createTable(tbls, rows, fault) ==
    LET resp == CreateTable(tbls, TableName, fault)
    IN  Outcome(resp.tables, rows, <<>>, resp.err, panicOnError(resp.err))

\* insertAccount with the row keyed by srv.Key instead of srv.Name
insertAccountKeyedByKey(tbls, rows, srv, fault) ==
    LET m == Marshal(srv)
    IN  IF panicOnError(m.err)
        THEN Outcome(tbls, rows, <<>>, m.err, TRUE)
        ELSE LET resp == PutItem(tbls, rows, Item(srv.Key, m.av), fault)
             IN  Outcome(tbls, resp.items, <<>>, resp.err, panicOnError(resp.err))

insertAccount(tbls, rows, srv, fault) ==
    LET m == Marshal(srv)
    IN  IF panicOnError(m.err)
        THEN Outcome(tbls, rows, <<>>, m.err, TRUE)
        ELSE LET resp == PutItem(tbls, rows, Item(srv.Name, m.av), fault)
             IN  Outcome(tbls, resp.items, <<>>, resp.err, panicOnError(resp.err))

\* findAccount returning the zero Account instead of nil when nothing matched
findAccountZeroValue(tbls, rows, order, name, fault) ==
    LET resp == Query(tbls, rows, order, AttrS(name), QueryLimit, fault)
    IN  IF panicOnError(resp.err)
        THEN Outcome(tbls, rows, <<>>, resp.err, TRUE)
        ELSE IF resp.Count = 1
        THEN LET u == Unmarshal(resp.Items[1].Data.V.object)
             IN  IF panicOnError(u.err)
                 THEN Outcome(tbls, rows, <<>>, u.err, TRUE)
                 ELSE Outcome(tbls, rows, <<u.acc>>, u.err, FALSE)
        ELSE Outcome(tbls, rows, <<Account("", "", "")>>, resp.err, FALSE)

findAccount(tbls, rows, order, name, fault) ==
    LET resp == Query(tbls, rows, order, AttrS(name), QueryLimit, fault)
    IN  IF panicOnError(resp.err)
        THEN Outcome(tbls, rows, <<>>, resp.err, TRUE)
        ELSE IF resp.Count = 1
        THEN LET u == Unmarshal(resp.Items[1].Data.V.object)
             IN  IF panicOnError(u.err)
                 THEN Outcome(tbls, rows, <<>>, u.err, TRUE)
                 ELSE Outcome(tbls, rows, <<u.acc>>, u.err, FALSE)
        ELSE Outcome(tbls, rows, <<>>, resp.err, FALSE)

\* the loop of listAccounts starting at the second row
listLoopSkipFirst(rowsMet) ==
    LET u   == [i \in 1..Len(rowsMet) |-> Unmarshal(rowsMet[i].Data.V.object)]
        bad == {i \in 2..Len(rowsMet) : panicOnError(u[i].err)}
    IN  IF bad # {}
        THEN [accounts |-> <<>>,
              err      |-> u[CHOOSE i \in bad : \A j \in bad : i <= j].err,
              panicked |-> TRUE]
        ELSE [accounts |-> [i \in 1..(Len(rowsMet) - 1) |-> u[i + 1].acc],
              err      |-> nil,
              panicked |-> FALSE]

\* the loop of listAccounts over resp.Items: it panics at the first row whose
\* payload does not decode, and appends one account per row otherwise
listLoop(rowsMet) ==
    LET u   == [i \in 1..Len(rowsMet) |-> Unmarshal(rowsMet[i].Data.V.object)]
        bad == {i \in 1..Len(rowsMet) : panicOnError(u[i].err)}
    IN  IF bad # {}
        THEN [accounts |-> <<>>,
              err      |-> u[CHOOSE i \in bad : \A j \in bad : i <= j].err,
              panicked |-> TRUE]
        ELSE [accounts |-> [i \in 1..Len(rowsMet) |-> u[i].acc],
              err      |-> nil,
              panicked |-> FALSE]

listAccounts(tbls, rows, order, fault) ==
    LET resp == Scan(tbls, rows, order, ScanLimit, fault)
    IN  IF panicOnError(resp.err)
        THEN Outcome(tbls, rows, <<>>, resp.err, TRUE)
        ELSE LET l == listLoop(resp.Items)
             IN  IF l.panicked
                 THEN Outcome(tbls, rows, <<>>, l.err, TRUE)
                 ELSE Outcome(tbls, rows, l.accounts, resp.err, FALSE)

\* deleteAccount with the key built from the table name
deleteAccountByTableName(tbls, rows, name, fault) ==
    LET resp == DeleteItem(tbls, rows, AttrS(TableName), fault)
    IN  Outcome(tbls, resp.items, <<>>, resp.err, panicOnError(resp.err))

\* deleteAccount treating a key that matches no row as an error
deleteAccountStrict(tbls, rows, name, fault) ==
    LET resp == DeleteItem(tbls, rows, AttrS(name), fault)
        e    == IF resp.err = nil /\ resp.items = rows
                THEN "ConditionalCheckFailedException" ELSE resp.err
    IN  Outcome(tbls, resp.items, <<>>, e, panicOnError(e))

deleteAccount(tbls, rows, name, fault) ==
    LET resp == DeleteItem(tbls, rows, AttrS(name), fault)
    IN  Outcome(tbls, resp.items, <<>>, resp.err, panicOnError(resp.err))

----------------------------------------------------------------------------
(* Initial backend states *)

BulkSeq == SubSeq(BulkName, 1, NumBulk)

BulkRows == {RowOf(BulkAccount(n)) : n \in BulkNames}

\* orders in which the backend may walk the partition keys
Orders ==
    { <<"Foo", "Fum", "legacy">> \o BulkSeq,
      BulkSeq \o <<"legacy", "Fum", "Foo">>,
      <<"Fum">> \o BulkSeq \o <<"Foo", "legacy">> }

OtherTables(k) == SubSeq(OtherTableName, 1, k)

\* listings of a backend with k other tables, without and with Accounts
TableListings ==
    UNION { { OtherTables(k),
              <<TableName>> \o OtherTables(k),
              OtherTables(k) \o <<TableName>> } : k \in {0, 1, NumOtherTables} }

\* what the Accounts table may hold before Main runs
InitialRows ==
    { {}, BulkRows, {ForeignRow},
      {RowOf(Account("Foo", "old", "stale"))} \cup BulkRows }

NoCall == [fn |-> "none", name |-> "", arg |-> <<>>]

CallOf(fn, name, arg) == [fn |-> fn, name |-> name, arg |-> arg]

\* a client call ends: the backend, the returned value and the error are
\* those of its outcome, and a panic ends the process
Finish(c, out, next) ==
    /\ tables' = out.tables
    /\ items' = out.items
    /\ ret' = out.ret
    /\ err' = out.err
    /\ call' = c
    /\ prev' = items
    /\ pc' = IF out.panicked THEN "panicked" ELSE next
    /\ UNCHANGED <<scanOrder, isLocal, before>>

----------------------------------------------------------------------------
(* Spec: a caller with an open connection to a backend that holds the      *)
(* Accounts table, calling the account operations in any order             *)

Init ==
    /\ tables = <<TableName>>
    /\ items \in {{}, BulkRows}
    /\ scanOrder \in Orders
    /\ isLocal = FALSE
    /\ pc = "ready"
    /\ call = NoCall
    /\ ret = <<>>
    /\ err = nil
    /\ prev = items
    /\ script = <<>>
    /\ before = items

Insert ==
    /\ pc = "ready"
    /\ \E srv \in Accounts, fault \in Faults :
         Finish(CallOf("insertAccount", srv.Name, <<srv>>),
                insertAccount(tables, items, srv, fault), "ready")
    /\ UNCHANGED script

Find ==
    /\ pc = "ready"
    /\ \E name \in Names, fault \in Faults :
         Finish(CallOf("findAccount", name, <<>>),
                findAccount(tables, items, scanOrder, name, fault), "ready")
    /\ UNCHANGED script

List ==
    /\ pc = "ready"
    /\ \E fault \in Faults :
         Finish(CallOf("listAccounts", "", <<>>),
                listAccounts(tables, items, scanOrder, fault), "ready")
    /\ UNCHANGED script

Delete ==
    /\ pc = "ready"
    /\ \E name \in Names, fault \in Faults :
         Finish(CallOf("deleteAccount", name, <<>>),
                deleteAccount(tables, items, name, fault), "ready")
    /\ UNCHANGED script

Next == Insert \/ Find \/ List \/ Delete

Spec == Init /\ [][Next]_vars

----------------------------------------------------------------------------
(* SpecMain: the script of Main *)

InitMain ==
    /\ isLocal \in BOOLEAN
    /\ tables \in TableListings
    /\ items \in IF TableExists(tables) THEN InitialRows ELSE {{}}
    /\ scanOrder \in Orders
    /\ pc = "openDatabase"
    /\ call = NoCall
    /\ ret = <<>>
    /\ err = nil
    /\ prev = items
    /\ script = <<>>
    /\ before = items

\* a statement of Main ends: the call joins the calls made so far
Statement(c, out, next) ==
    /\ Finish(c, out, next)
    /\ script' = Append(script, <<c.fn, c.name>>)

MainOpenDatabase ==
    /\ pc = "openDatabase"
    /\ \E fault \in Faults :
         Statement(CallOf("openDatabase", "", <<>>),
                   openDatabase(tables, items, fault),
                   IF isLocal THEN "listTables" ELSE "insertFoo")

MainListTables ==
    /\ pc = "listTables"
    /\ \E fault \in Faults :
         LET out == listTables(tables, items, fault)
         IN  Statement(CallOf("listTables", "", <<>>), out,
                       IF ~contains(out.ret, "Accounts")
                       THEN "createTable" ELSE "insertFoo")

MainCreateTable ==
    /\ pc = "createTable"
    /\ \E fault \in Faults :
         Statement(CallOf("createTable", "", <<>>),
                   createTable(tables, items, fault),
                   "insertFoo")

MainInsertFoo ==
    /\ pc = "insertFoo"
    /\ \E fault \in Faults :
         Statement(CallOf("insertAccount", Foo.Name, <<Foo>>),
                   insertAccount(tables, items, Foo, fault),
                   "findFoo")

MainFindFoo ==
    /\ pc = "findFoo"
    /\ \E fault \in Faults :
         Statement(CallOf("findAccount", "Foo", <<>>),
                   findAccount(tables, items, scanOrder, "Foo", fault),
                   "insertFum")

MainInsertFum ==
    /\ pc = "insertFum"
    /\ \E fault \in Faults :
         Statement(CallOf("insertAccount", Fum.Name, <<Fum>>),
                   insertAccount(tables, items, Fum, fault),
                   "listAccounts1")

MainListAccounts1 ==
    /\ pc = "listAccounts1"
    /\ \E fault \in Faults :
         Statement(CallOf("listAccounts", "", <<>>),
                   listAccounts(tables, items, scanOrder, fault),
                   "deleteFoo")

MainDeleteFoo ==
    /\ pc = "deleteFoo"
    /\ \E fault \in Faults :
         Statement(CallOf("deleteAccount", "Foo", <<>>),
                   deleteAccount(tables, items, "Foo", fault),
                   "deleteFum")

\* the second delete of Main deleting "Foo" again
MainDeleteFumAsFoo ==
    /\ pc = "deleteFum"
    /\ \E fault \in Faults :
         Statement(CallOf("deleteAccount", "Foo", <<>>),
                   deleteAccount(tables, items, "Foo", fault),
                   "listAccounts2")

MainDeleteFum ==
    /\ pc = "deleteFum"
    /\ \E fault \in Faults :
         Statement(CallOf("deleteAccount", "Fum", <<>>),
                   deleteAccount(tables, items, "Fum", fault),
                   "listAccounts2")

MainListAccounts2 ==
    /\ pc = "listAccounts2"
    /\ \E fault \in Faults :
         Statement(CallOf("listAccounts", "", <<>>),
                   listAccounts(tables, items, scanOrder, fault),
                   "done")

NextMain ==
    \/ MainOpenDatabase
    \/ MainListTables
    \/ MainCreateTable
    \/ MainInsertFoo
    \/ MainFindFoo
    \/ MainInsertFum
    \/ MainListAccounts1
    \/ MainDeleteFoo
    \/ MainDeleteFum
    \/ MainListAccounts2

SpecMain == InitMain /\ [][NextMain]_vars

----------------------------------------------------------------------------
(* Properties of the account operations, checked under Spec *)

HasRow(rows, n) == \E r \in rows : r.AccountName = AttrS(n)

\* what findAccount and listAccounts return on given rows when the backend answers
Found(rows, n) == findAccount(tables, rows, scanOrder, n, nil).ret
Listed(rows) == listAccounts(tables, rows, scanOrder, nil).ret

\* the most recent call was fn and it returned
Completed(fn) == call.fn = fn /\ pc # "panicked"

Hidden(rows, n) ==
    LET l == Listed(rows)
    IN  Found(rows, n) = <<>> /\ \A i \in 1..Len(l) : l[i].Name # n

(* C1: last write wins.  When insertAccount returns, findAccount of the    *)
(* account's name yields an account equal to the one inserted in all three *)
(* fields, also when the name was stored before with other values; and a   *)
(* call that is not a returned insertAccount or deleteAccount of name n    *)
(* leaves what findAccount(n) yields unchanged.                            *)
C1_LastWriteWins ==
    /\ Completed("insertAccount") => Found(items, call.name) = call.arg
    /\ \A n \in Names :
         ~(call.name = n /\ (Completed("insertAccount") \/ Completed("deleteAccount")))
            => Found(items, n) = Found(prev, n)

C1_Witness ==
    /\ Completed("insertAccount")
    /\ Found(prev, call.name) # <<>>
    /\ Found(prev, call.name)[1].Description # call.arg[1].Description
    /\ Found(items, call.name) = call.arg

(* C2: delete removes visibility.  When deleteAccount(n) returns,          *)
(* findAccount(n) yields nil and listAccounts yields no account named n,   *)
(* and that stays so over every call that is not a returned insertAccount  *)
(* of n.                                                                   *)
C2_DeleteRemovesVisibility ==
    \A n \in Names :
        /\ (Completed("deleteAccount") /\ call.name = n) => Hidden(items, n)
        /\ (Hidden(prev, n) /\ ~(Completed("insertAccount") /\ call.name = n))
              => Hidden(items, n)

C2_Witness ==
    /\ Completed("deleteAccount")
    /\ HasRow(prev, call.name)
    /\ Cardinality(items) >= 1
    /\ Hidden(items, call.name)

(* C3: delete is idempotent.  deleteAccount(n) on an existing table with   *)
(* no row keyed n leaves the rows unchanged and panics only when the       *)
(* request itself failed; and deleting n a second time returns and leaves  *)
(* the rows as the first delete left them.                                 *)
C3_DeleteIdempotent ==
    /\ (call.fn = "deleteAccount" /\ ~HasRow(prev, call.name))
          => /\ items = prev
             /\ pc = "panicked" => err \in Faults \ {nil}
    /\ \A n \in Names :
         LET once  == deleteAccount(tables, items, n, nil)
             twice == deleteAccount(once.tables, once.items, n, nil)
         IN  ~once.panicked /\ ~twice.panicked /\ twice.items = once.items

C3_Witness ==
    /\ Completed("deleteAccount")
    /\ ~HasRow(prev, call.name)
    /\ prev # {}
    /\ items = prev

(* C4: scan completeness up to the cap.  When listAccounts returns on a    *)
(* table of N <= 100 rows it yields exactly N accounts whose rows are      *)
(* exactly the stored rows (so none twice and none extra); on more than    *)
(* 100 rows it yields at most 100 accounts, each the account of a stored   *)
(* row.                                                                    *)
C4_ScanComplete ==
    Completed("listAccounts") =>
        LET n == Cardinality(items)
        IN  /\ n <= ScanLimit =>
                 /\ Len(ret) = n
                 /\ {RowOf(ret[i]) : i \in 1..Len(ret)} = items
            /\ n > ScanLimit =>
                 /\ Len(ret) <= ScanLimit
                 /\ \A i \in 1..Len(ret) : RowOf(ret[i]) \in items

C4_Witness ==
    /\ Completed("listAccounts")
    /\ Cardinality(items) = ScanLimit
    /\ HasRow(items, "Fum")
    /\ Len(ret) = ScanLimit

(* C5: findAccount yields nil, without a panic, whenever the query's count *)
(* is not exactly 1 (an empty table, a name never inserted or deleted),    *)
(* and an account only when one row matched; it panics only when the       *)
(* request itself failed.                                                  *)
C5_FindAbsent ==
    call.fn = "findAccount" =>
        LET match == {r \in prev : r.AccountName = AttrS(call.name)}
            count == Min(Cardinality(match), QueryLimit)
        IN  /\ pc = "panicked" => err \in Faults \ {nil}
            /\ pc # "panicked" =>
                 /\ count # 1 => ret = <<>>
                 /\ ret # <<>> => count = 1 /\ Len(ret) = 1 /\ RowOf(ret[1]) \in match

C5_Witness ==
    /\ Completed("findAccount")
    /\ ~HasRow(prev, call.name)
    /\ prev # {}
    /\ ret = <<>>

(* C8: name uniqueness.  The table holds at most one row per account name  *)
(* and every row's AccountName equals the name inside its payload.         *)
C8_NameUnique ==
    /\ Cardinality({r.AccountName : r \in items}) = Cardinality(items)
    /\ \A r \in items : r.Data.V.object.V.name = r.AccountName

C8_Witness ==
    /\ Completed("insertAccount")
    /\ HasRow(prev, call.name)
    /\ items # prev
    /\ Cardinality(items) = Cardinality(prev)
    /\ Cardinality(items) >= 2

----------------------------------------------------------------------------
(* Properties of Main, checked under SpecMain *)

IsPrefix(a, b) == Len(a) <= Len(b) /\ SubSeq(b, 1, Len(a)) = a

\* the calls of a run of Main that completes, with or without createTable
FullScript(create) ==
    <<<<"openDatabase", "">>>>
    \o (IF isLocal THEN <<<<"listTables", "">>>> ELSE <<>>)
    \o (IF create THEN <<<<"createTable", "">>>> ELSE <<>>)
    \o << <<"insertAccount", "Foo">>, <<"findAccount", "Foo">>,
          <<"insertAccount", "Fum">>, <<"listAccounts", "">>,
          <<"deleteAccount", "Foo">>, <<"deleteAccount", "Fum">>,
          <<"listAccounts", "">> >>

\* the statements of Main: at each of them the action of that statement is enabled
MainStatements ==
    {"openDatabase", "listTables", "createTable", "insertFoo", "findFoo",
     "insertFum", "listAccounts1", "deleteFoo", "deleteFum", "listAccounts2"}

(* C6: fail fast.  An error met by any call panics the process: the call   *)
(* returns no value, no further statement of Main runs (nothing is         *)
(* retried) and the run does not complete; and the process panics only on  *)
(* an error.                                                               *)
C6_FailFast ==
    /\ err # nil => pc = "panicked" /\ ret = <<>>
    /\ pc = "panicked" => err # nil /\ ~ENABLED NextMain
    /\ pc = "done" => err = nil

C6_Witness ==
    /\ pc = "panicked"
    /\ call.fn = "listAccounts"
    /\ err = "UnmarshalTypeError"
    /\ Len(script) >= 5

(* C7: Main calls createTable only in local mode and never against a       *)
(* backend that already holds the Accounts table, whatever tables the      *)
(* backend holds.                                                          *)
C7_CreateOnlyWhenMissing ==
    /\ pc = "createTable" => isLocal /\ ~TableExists(tables)
    /\ ~isLocal => \A i \in 1..Len(script) : script[i][1] # "createTable"

(* C9: the example scenario on an initially empty table.  findAccount of   *)
(* "Foo" after its insert returns that exact record; listAccounts after    *)
(* the insert of "Fum" returns exactly Foo and Fum; after the delete of    *)
(* "Foo" a listing holds only Fum, unchanged; and an insert or delete of   *)
(* one name leaves the rows of every other name as they were.              *)
C9_ExampleScenario ==
    /\ before = {} =>
         /\ pc = "insertFum" => ret = <<Foo>>
         /\ pc = "deleteFoo" => Len(ret) = 2 /\ {ret[1], ret[2]} = {Foo, Fum}
         /\ pc = "deleteFum" =>
              Listed(items) = <<Account("Fum", "654321", "My seccond account")>>
    /\ call.fn \in {"insertAccount", "deleteAccount"} =>
         {r \in items : r.AccountName # AttrS(call.name)}
            = {r \in prev : r.AccountName # AttrS(call.name)}

C9_Witness ==
    /\ before = {}
    /\ pc = "deleteFum"
    /\ script[Len(script)] = <<"deleteAccount", "Foo">>
    /\ Listed(items) = <<Fum>>

(* C10: Main makes its calls in the order open, (local only: listTables,   *)
(* then createTable if Accounts was not listed), insert Foo, find Foo,     *)
(* insert Fum, list, delete Foo, delete Fum, list; it stops before the end *)
(* only by a panic on an error; and when it completes the table holds no   *)
(* row named Foo or Fum, every other row it held before the run is         *)
(* unchanged, and the final listing names neither Foo nor Fum.             *)
C10_ScriptOrder ==
    /\ \E create \in BOOLEAN :
         (create => isLocal) /\ IsPrefix(script, FullScript(create))
    /\ pc = "done" \/ pc = "panicked" \/ pc \in MainStatements
    /\ pc = "panicked" => err # nil
    /\ pc = "done" =>
         /\ \E create \in BOOLEAN : script = FullScript(create)
         /\ ~HasRow(items, "Foo") /\ ~HasRow(items, "Fum")
         /\ items = {r \in before : r.AccountName \notin {AttrS("Foo"), AttrS("Fum")}}
         /\ \A i \in 1..Len(ret) : ret[i].Name \notin {"Foo", "Fum"}

C10_Witness ==
    /\ pc = "done"
    /\ isLocal
    /\ HasRow(before, "Foo")
    /\ items = BulkRows
    /\ Len(ret) = NumBulk

====
